---- MODULE Spec2Model ----
(***************************************************************************)
(* Model of pyrawsql.QueryContext (src/src/pyrawsql/__init__.py).          *)
(*                                                                         *)
(* Strings are sequences of one-character strings, so that the f-string    *)
(* formatting of keys ("b0") and of alias suffixes ("t_2") is computed.    *)
(* An object passed as `value` is represented by its identity (a number);  *)
(* its runtime type and its value are functions of the identity.  The      *)
(* registry keeps a reference to every registered object, so an identity   *)
(* is never reused during the lifetime of the context.                     *)
(*                                                                         *)
(* Spec is the sequential use of one context: every call is one step.      *)
(* ConcSpec runs bindparam in two threads on one context without a lock,   *)
(* one step per statement of the method.                                   *)
(***************************************************************************)
EXTENDS Integers, Sequences, FiniteSets, TLC

\* ---- bounds of the model -------------------------------------------------
MaxCalls == 5
NumObjects == 3
\* calls made by the two threads of the concurrent specification
MaxThreadCalls == 3

\* ---- inputs ----------------------------------------------------------------
Objects == 1..NumObjects

\* type(value): objects 3, 6, ... are strings, all the others are ints
TypeOf(value) == IF value % 3 = 0 THEN "str" ELSE "int"

\* the value an object holds: objects 1 and 2 are distinct but equal by value
ValueOf(value) == (value + 1) \div 2

\* the binder options of one call, passed through verbatim
Configs == { [unique |-> u, expanding |-> FALSE] : u \in BOOLEAN }

\* candidate alias names
Names == { <<"t">>, <<"u">>, <<"t", "_", "1">>, <<"t", "_", "2">> }

NoKey == <<>>

\* ---- formatting ------------------------------------------------------------
Digits == <<"0", "1", "2", "3", "4", "5", "6", "7", "8", "9">>

RECURSIVE ToStr(_)
\* str(n) of a non-negative int, as the f-strings of bindparam and alias do
ToStr(n) == IF n < 10 THEN <<Digits[n + 1]>>
            ELSE ToStr(n \div 10) \o <<Digits[(n % 10) + 1]>>

\* ---- state ------------------------------------------------------------------
VARIABLES aliases, binds_values, binds_count, binds, history,
          threads, overlapped

vars == <<aliases, binds_values, binds_count, binds, history,
          threads, overlapped>>

ctx == <<aliases, binds_values, binds_count, binds>>

\* the threads of the concurrent specification; they do not run in Spec
conc == <<threads, overlapped>>

\* ---- bindparam --------------------------------------------------------------
\* variant: compares the values held, not the objects (`==` for `is`)
IsSameByValue(bind_value, value) == ValueOf(bind_value) = ValueOf(value)

\* `bind_value is value`
IsSame(bind_value, value) == bind_value = value

RECURSIVE ScanFrom(_, _, _)
ScanFrom(type_group, value, i) ==
    IF i > Len(type_group) THEN NoKey
    ELSE IF IsSame(type_group[i][1], value) THEN type_group[i][2]
    ELSE ScanFrom(type_group, value, i + 1)

\* variant: the loop leaves after looking at the first entry only
FindBindFirstOnly(type_group, value) ==
    IF Len(type_group) > 0 /\ IsSame(type_group[1][1], value)
    THEN type_group[1][2]
    ELSE NoKey

\* the scan of the bucket: the key of the first entry holding the very same
\* object, NoKey when the loop ends without returning
FindBind(type_group, value) == ScanFrom(type_group, value, 1)

\* variant: the bucket is re-created on every call
TypeGroupFresh(bv, value_type) == <<>>

\* the bucket bindparam works on: a fresh list for a new type
TypeGroup(bv, value_type) ==
    IF value_type \notin DOMAIN bv THEN <<>> ELSE bv[value_type]

\* variant: the counter is incremented before the key is formatted
MakeKeyAfterIncrement(count) == <<"b">> \o ToStr(count + 1)

\* key = f"b{self._binds_count}"
MakeKey(count) == <<"b">> \o ToStr(count)

\* sqlalchemy.bindparam(key=, value=, ...): the record handed to the engine
BindParameter(key, value, config) ==
    [key |-> key, value |-> value, config |-> config]

\* variant: the pair is inserted at the head of the bucket
GroupAppendFront(bv, value_type, value, key) ==
    [t \in (DOMAIN bv) \cup {value_type} |->
        IF t = value_type
        THEN <<<<value, key>>>> \o TypeGroup(bv, value_type)
        ELSE bv[t]]

\* self._binds_values[value_type] with type_group.append((value, key))
GroupAppend(bv, value_type, value, key) ==
    [t \in (DOMAIN bv) \cup {value_type} |->
        IF t = value_type
        THEN Append(TypeGroup(bv, value_type), <<value, key>>)
        ELSE bv[t]]

\* variant: the dict is replaced by one holding the new entry only
DictSetOnlyLast(d, key, param) == <<<<key, param>>>>

\* self._binds[key] = param on an insertion-ordered dict: an existing key
\* keeps its position and gets the new value, a new key goes last
DictSet(d, key, param) ==
    IF \E i \in 1..Len(d) : d[i][1] = key
    THEN [i \in 1..Len(d) |-> IF d[i][1] = key THEN <<key, param>> ELSE d[i]]
    ELSE Append(d, <<key, param>>)

\* variant: the values are listed newest first
DictValuesReversed(d) == [i \in 1..Len(d) |-> d[Len(d) + 1 - i][2]]

\* list(self._binds.values())
DictValues(d) == [i \in 1..Len(d) |-> d[i][2]]

Call(op, value, config, name, ret_key, ret_list, hit) ==
    [op |-> op, value |-> value, config |-> config, name |-> name,
     ret_key |-> ret_key, ret_list |-> ret_list, hit |-> hit]

NoConfig == [unique |-> FALSE, expanding |-> FALSE]

bindparam(value, config) ==
    LET value_type == TypeOf(value)
        type_group == TypeGroup(binds_values, value_type)
        found      == FindBind(type_group, value)
        key        == MakeKey(binds_count)
    IN  /\ Len(history) < MaxCalls
        /\ UNCHANGED conc
        /\ IF found # NoKey
           THEN /\ UNCHANGED ctx
                /\ history' = Append(history,
                       Call("bindparam", value, config, <<>>, found, <<>>, TRUE))
           ELSE /\ binds_count' = binds_count + 1
                /\ binds_values' = GroupAppend(binds_values, value_type, value, key)
                /\ binds' = DictSet(binds, key, BindParameter(key, value, config))
                /\ UNCHANGED aliases
                /\ history' = Append(history,
                       Call("bindparam", value, config, <<>>, key, <<>>, FALSE))

\* ---- get_bindparams ---------------------------------------------------------
get_bindparams ==
    /\ Len(history) < MaxCalls
    /\ UNCHANGED ctx
    /\ UNCHANGED conc
    /\ history' = Append(history,
           Call("get_bindparams", 0, NoConfig, <<>>, <<>>, DictValues(binds), FALSE))

\* ---- alias ------------------------------------------------------------------
\* variant: the suffix is appended without testing for a collision
AliasNameAlwaysSuffix(name, als) ==
    name \o <<"_">> \o ToStr(Cardinality(als))

\* variant: the suffix counts the aliases already derived from this name
AliasNamePerName(name, als) ==
    IF name \in als
    THEN name \o <<"_">> \o ToStr(Cardinality(
             {a \in als : \/ a = name
                          \/ /\ Len(a) > Len(name)
                             /\ SubSeq(a, 1, Len(name) + 1) = name \o <<"_">>}))
    ELSE name

\* variant: the suffix is the size of the set after the insertion
AliasNameSizeAfter(name, als) ==
    IF name \in als
    THEN name \o <<"_">> \o ToStr(Cardinality(als) + 1)
    ELSE name

\* variant: the suffix is the length of the name, not of the alias set
AliasNameLenOfName(name, als) ==
    IF name \in als
    THEN name \o <<"_">> \o ToStr(Len(name))
    ELSE name

RECURSIVE NextFree(_, _, _)
NextFree(name, als, n) ==
    IF name \o <<"_">> \o ToStr(n) \in als
    THEN NextFree(name, als, n + 1)
    ELSE name \o <<"_">> \o ToStr(n)

\* variant: the fallback is re-checked until a free name is found
AliasNameRetry(name, als) ==
    IF name \in als
    THEN NextFree(name, als, Cardinality(als))
    ELSE name

\* the name alias reserves and returns
AliasName(name, als) ==
    IF name \in als
    THEN name \o <<"_">> \o ToStr(Cardinality(als))
    ELSE name

alias(name) ==
    LET new_name == AliasName(name, aliases)
    IN  /\ Len(history) < MaxCalls
        /\ aliases' = aliases \cup {new_name}
        /\ UNCHANGED <<binds_values, binds_count, binds>>
        /\ UNCHANGED conc
        /\ history' = Append(history,
               Call("alias", 0, NoConfig, name, new_name, <<>>, name \in aliases))

\* ---- two threads in bindparam -------------------------------------------------
Threads == {1, 2}

\* the locals of a thread that is not inside bindparam
IdleThread ==
    [pc |-> "idle", value |-> 0, config |-> NoConfig, value_type |-> "",
     group |-> "dict", own |-> <<>>, i |-> 0, key |-> NoKey, tmp |-> 0]

Other(t) == CHOOSE u \in Threads : u # t

\* the list the local type_group of thread t refers to: the list stored in
\* _binds_values, or a list no longer (or not yet) stored there
GroupOf(t) ==
    IF threads[t].group = "dict"
    THEN binds_values[threads[t].value_type]
    ELSE threads[t].own

\* thread t holds a reference to the list stored for value_type
HoldsDictList(t, value_type) ==
    /\ threads[t].pc \in {"l68", "l72", "l73r", "l73w", "l74", "l76"}
    /\ threads[t].group = "dict"
    /\ threads[t].value_type = value_type

\* thread t enters bindparam(value, config); line 63
T_call(t, value, config) ==
    /\ threads[t].pc = "idle"
    /\ Len(history) + Cardinality({u \in Threads : threads[u].pc # "idle"})
           < MaxThreadCalls
    /\ threads' = [threads EXCEPT ![t] =
           [IdleThread EXCEPT !.pc = "l64", !.value = value, !.config = config,
                              !.value_type = TypeOf(value)]]
    /\ overlapped' = (overlapped \/ threads[Other(t)].pc # "idle")
    /\ UNCHANGED <<ctx, history>>

\* line 64: if value_type not in self._binds_values
T_test(t) ==
    /\ threads[t].pc = "l64"
    /\ threads' = [threads EXCEPT ![t].pc =
           IF threads[t].value_type \notin DOMAIN binds_values
           THEN "l65" ELSE "l67"]
    /\ UNCHANGED <<ctx, history, overlapped>>

\* line 65: type_group = self._binds_values[value_type] = []; a list already
\* stored for the type is replaced, and the other thread keeps its reference
\* to the replaced list
T_new_group(t) ==
    LET vt == threads[t].value_type
        u  == Other(t)
    IN  /\ threads[t].pc = "l65"
        /\ binds_values' = [x \in (DOMAIN binds_values) \cup {vt} |->
               IF x = vt THEN <<>> ELSE binds_values[x]]
        /\ threads' = [threads EXCEPT
               ![t].pc = "l72",
               ![t].group = "dict",
               ![u].group = IF HoldsDictList(u, vt) THEN "own" ELSE @,
               ![u].own = IF HoldsDictList(u, vt) THEN binds_values[vt] ELSE @]
        /\ UNCHANGED <<aliases, binds_count, binds, history, overlapped>>

\* line 67: type_group = self._binds_values[value_type]
T_get_group(t) ==
    /\ threads[t].pc = "l67"
    /\ threads' = [threads EXCEPT ![t].pc = "l68", ![t].group = "dict", ![t].i = 1]
    /\ UNCHANGED <<ctx, history, overlapped>>

\* lines 68-70: one iteration of the for loop; the list iterator sees the
\* entries appended since the loop began
T_scan(t) ==
    LET l == threads[t]
        g == GroupOf(t)
    IN  /\ l.pc = "l68"
        /\ UNCHANGED <<ctx, overlapped>>
        /\ IF l.i > Len(g)
           THEN /\ threads' = [threads EXCEPT ![t].pc = "l72"]
                /\ UNCHANGED history
           ELSE IF IsSame(g[l.i][1], l.value)
           THEN /\ threads' = [threads EXCEPT ![t] = IdleThread]
                /\ history' = Append(history,
                       Call("bindparam", l.value, l.config, <<>>, g[l.i][2], <<>>, TRUE))
           ELSE /\ threads' = [threads EXCEPT ![t].i = l.i + 1]
                /\ UNCHANGED history

\* line 72: key = f"b{self._binds_count}"
T_key(t) ==
    /\ threads[t].pc = "l72"
    /\ threads' = [threads EXCEPT ![t].pc = "l73r", ![t].key = MakeKey(binds_count)]
    /\ UNCHANGED <<ctx, history, overlapped>>

\* line 73, self._binds_count += 1: the read
T_count_read(t) ==
    /\ threads[t].pc = "l73r"
    /\ threads' = [threads EXCEPT ![t].pc = "l73w", ![t].tmp = binds_count]
    /\ UNCHANGED <<ctx, history, overlapped>>

\* line 73, self._binds_count += 1: the write
T_count_write(t) ==
    /\ threads[t].pc = "l73w"
    /\ binds_count' = threads[t].tmp + 1
    /\ threads' = [threads EXCEPT ![t].pc = "l74"]
    /\ UNCHANGED <<aliases, binds_values, binds, history, overlapped>>

\* line 74: type_group.append((value, key))
T_append(t) ==
    LET l == threads[t]
    IN  /\ l.pc = "l74"
        /\ IF l.group = "dict"
           THEN /\ binds_values' = [binds_values EXCEPT ![l.value_type] =
                       Append(@, <<l.value, l.key>>)]
                /\ threads' = [threads EXCEPT ![t].pc = "l76"]
           ELSE /\ threads' = [threads EXCEPT ![t].pc = "l76",
                       ![t].own = Append(@, <<l.value, l.key>>)]
                /\ UNCHANGED binds_values
        /\ UNCHANGED <<aliases, binds_count, binds, history, overlapped>>

\* lines 76-89: self._binds[key] = bindparam(...); return key
T_store(t) ==
    LET l == threads[t]
    IN  /\ l.pc = "l76"
        /\ binds' = DictSet(binds, l.key, BindParameter(l.key, l.value, l.config))
        /\ threads' = [threads EXCEPT ![t] = IdleThread]
        /\ history' = Append(history,
               Call("bindparam", l.value, l.config, <<>>, l.key, <<>>, FALSE))
        /\ UNCHANGED <<aliases, binds_values, binds_count, overlapped>>

\* ---- specification ----------------------------------------------------------
Init ==
    /\ aliases = {}
    /\ binds_values = [t \in {} |-> <<>>]
    /\ binds_count = 0
    /\ binds = <<>>
    /\ history = <<>>
    /\ threads = [t \in Threads |-> IdleThread]
    /\ overlapped = FALSE

Next ==
    \/ \E value \in Objects, config \in Configs : bindparam(value, config)
    \/ get_bindparams
    \/ \E name \in Names : alias(name)

Spec == Init /\ [][Next]_vars

\* two threads call bindparam on one context without a lock
ConcNext ==
    \E t \in Threads :
        \/ \E value \in Objects, config \in Configs : T_call(t, value, config)
        \/ T_test(t)
        \/ T_new_group(t)
        \/ T_get_group(t)
        \/ T_scan(t)
        \/ T_key(t)
        \/ T_count_read(t)
        \/ T_count_write(t)
        \/ T_append(t)
        \/ T_store(t)

ConcSpec == Init /\ [][ConcNext]_vars

\* ---- observations on the recorded calls ------------------------------------
Last == history[Len(history)]

BindCalls == {i \in 1..Len(history) : history[i].op = "bindparam"}

IsAliasCall(c) == c.op = "alias"

AliasSeq == SelectSeq(history, IsAliasCall)

\* the objects passed to bindparam before call i
PassedBefore(i) == {history[j].value : j \in {k \in BindCalls : k < i}}

\* the bindparam calls whose object was not passed by an earlier call
Misses == {i \in BindCalls : history[i].value \notin PassedBefore(i)}

\* ---- claims -------------------------------------------------------------------

C2_DistinctObjectsDistinctKeys ==
    \A i, j \in BindCalls :
        history[i].value # history[j].value
            => history[i].ret_key # history[j].ret_key

\* two distinct objects, equal by value and of the same type, were registered
C2_Witness ==
    \E i, j \in BindCalls :
        /\ history[i].value # history[j].value
        /\ ValueOf(history[i].value) = ValueOf(history[j].value)
        /\ TypeOf(history[i].value) = TypeOf(history[j].value)
        /\ history[i].ret_key = <<"b", "0">>
        /\ history[j].ret_key = <<"b", "1">>

\* C3: the name returned by alias is always unique: no two alias calls on the
\* context return the same string.
C3_AliasAlwaysUnique ==
    \A i, j \in 1..Len(AliasSeq) :
        i # j => AliasSeq[i].ret_key # AliasSeq[j].ret_key

C5_KeysMintedInOrder ==
    \A i \in Misses :
        history[i].ret_key =
            <<"b">> \o ToStr(Cardinality({j \in Misses : j < i}))

\* miss, hit, miss, miss: the keys minted are b0, b1, b2
C5_Witness ==
    \E i, j, k, l \in BindCalls :
        /\ i < j /\ j < k /\ k < l
        /\ Misses = {i, k, l}
        /\ history[i].ret_key = <<"b", "0">>
        /\ history[j].ret_key = <<"b", "0">>
        /\ history[k].ret_key = <<"b", "1">>
        /\ history[l].ret_key = <<"b", "2">>

\* the call recorded by the step, when the step is a call
Made(op) ==
    /\ Len(history') = Len(history) + 1
    /\ history'[Len(history')].op = op

\* the first bindparam call that passed the object
FirstCall(value) ==
    CHOOSE i \in BindCalls :
        /\ history[i].value = value
        /\ \A j \in BindCalls : history[j].value = value => i <= j

\* C6: get_bindparams returns every registered BindParameter exactly once, in
\* the order the keys were minted (element i has key "b"+i), and changes
\* nothing in the context.
C6_ExportOrderedReadOnly ==
    [][Made("get_bindparams") =>
        LET ret == history'[Len(history')].ret_list
        IN  /\ aliases' = aliases
            /\ binds_values' = binds_values
            /\ binds_count' = binds_count
            /\ binds' = binds
            /\ Len(ret) = Cardinality(Misses)
            /\ \A k \in 1..Len(ret) : ret[k].key = <<"b">> \o ToStr(k - 1)
            /\ \A i \in Misses :
                   Cardinality({k \in 1..Len(ret) :
                       ret[k] = [key    |-> history[i].ret_key,
                                 value  |-> history[i].value,
                                 config |-> history[i].config]}) = 1
    ]_vars

\* an export of two parameters after a deduplication hit
C6_Witness ==
    /\ Len(history) >= 4
    /\ Last.op = "get_bindparams"
    /\ Len(Last.ret_list) = 2
    /\ Last.ret_list[1].key = <<"b", "0">>
    /\ Last.ret_list[2].key = <<"b", "1">>
    /\ Last.ret_list[1].value # Last.ret_list[2].value
    /\ Cardinality(BindCalls) = 3

\* C7: with no other alias calls, calling alias with the same candidate name k
\* times returns name, name_1, name_2, ..., name_(k-1) in that order.
C7_RepeatedName ==
    (\A i \in 1..Len(AliasSeq) : AliasSeq[i].name = AliasSeq[1].name)
        => \A i \in 1..Len(AliasSeq) :
               AliasSeq[i].ret_key =
                   IF i = 1 THEN AliasSeq[1].name
                   ELSE AliasSeq[1].name \o <<"_">> \o ToStr(i - 1)

\* alias("t") three times in a row returned "t", "t_1", "t_2"
C7_Witness ==
    /\ Len(history) = 3
    /\ Len(AliasSeq) = 3
    /\ \A i \in 1..3 : history[i].name = <<"t">>
    /\ history[1].ret_key = <<"t">>
    /\ history[2].ret_key = <<"t", "_", "1">>
    /\ history[3].ret_key = <<"t", "_", "2">>

C9_FreshNameUnchanged ==
    [][Made("alias") =>
        LET c == history'[Len(history')]
            A == SelectSeq(history', IsAliasCall)
        IN  /\ c.name \notin aliases
                => /\ c.ret_key = c.name
                   /\ aliases' = aliases \cup {c.name}
            /\ (\A i \in 1..Len(A) : ~A[i].hit)
                => \A i, j \in 1..Len(A) :
                       A[i].name # A[j].name => A[i].ret_key # A[j].ret_key
    ]_vars

\* three different fresh names were reserved, none collided
C9_Witness ==
    /\ Len(AliasSeq) = 3
    /\ \A i \in 1..3 : ~AliasSeq[i].hit /\ AliasSeq[i].ret_key = AliasSeq[i].name
    /\ Cardinality(aliases) = 3
    /\ <<"t", "_", "1">> \in aliases

\* C10: when the candidate name is already in the alias set, alias returns
\* name + "_" + n, n being the size of the alias set just before the call.
C10_SuffixIsSetSize ==
    [][Made("alias") =>
        LET c == history'[Len(history')]
        IN  c.name \in aliases
                => /\ c.ret_key = c.name \o <<"_">> \o ToStr(Cardinality(aliases))
                   /\ c.ret_key \in aliases'
    ]_vars

\* alias("t"), alias("u"), alias("t"): the third call returned "t_2"
C10_Witness ==
    /\ Len(AliasSeq) = 3
    /\ AliasSeq[1].name = <<"t">>
    /\ AliasSeq[2].name = <<"u">>
    /\ AliasSeq[3].name = <<"t">>
    /\ AliasSeq[3].hit
    /\ AliasSeq[3].ret_key = <<"t", "_", "2">>

\* the positions of the (value, key) pairs of all bind groups
AllPairs ==
    UNION {{<<t, e>> : e \in 1..Len(binds_values[t])} : t \in DOMAIN binds_values}

PairAt(p) == binds_values[p[1]][p[2]]

\* the keys of binds
BindKeys == {binds[k][1] : k \in 1..Len(binds)}

C12_MissRegisters ==
    [][(Made("bindparam") /\ history'[Len(history')].value \notin PassedBefore(Len(history')))
        => LET c   == history'[Len(history')]
               t   == TypeOf(c.value)
               old == IF t \in DOMAIN binds_values THEN binds_values[t] ELSE <<>>
           IN  /\ c.ret_key = <<"b">> \o ToStr(binds_count)
               /\ binds_count' = binds_count + 1
               /\ DOMAIN binds_values' = (DOMAIN binds_values) \cup {t}
               /\ binds_values'[t] = Append(old, <<c.value, c.ret_key>>)
               /\ \A u \in (DOMAIN binds_values) \ {t} :
                      binds_values'[u] = binds_values[u]
               /\ binds' = Append(binds,
                      <<c.ret_key, [key    |-> c.ret_key,
                                    value  |-> c.value,
                                    config |-> c.config]>>)
               /\ aliases' = aliases
    ]_vars

\* the last call missed and went to the end of a bucket that had an entry,
\* while the bucket of the other type holds an entry too
C12_Witness ==
    /\ Len(history) >= 4
    /\ Last.op = "bindparam"
    /\ Last.value \notin PassedBefore(Len(history))
    /\ Last.ret_key = <<"b", "2">>
    /\ DOMAIN binds_values = {"int", "str"}
    /\ Len(binds_values[TypeOf(Last.value)]) = 2
    /\ binds_values[TypeOf(Last.value)][2] = <<Last.value, <<"b", "2">>>>
    /\ aliases # {}

\* C13: the keys of binds are exactly the keys of the (value, key) pairs of
\* all bind groups, and no key appears in more than one pair.
C13_BindKeysAreGroupKeys ==
    /\ BindKeys = {PairAt(p)[2] : p \in AllPairs}
    /\ \A p, q \in AllPairs : p # q => PairAt(p)[2] # PairAt(q)[2]
    /\ Cardinality(BindKeys) = Len(binds)

\* three pairs in two groups
C13_Witness ==
    /\ Cardinality(AllPairs) = 3
    /\ Cardinality(DOMAIN binds_values) = 2
    /\ BindKeys = {<<"b", "0">>, <<"b", "1">>, <<"b", "2">>}

\* C14: within each bind group, and so across all groups, no two entries hold
\* the same object.
C14_NoObjectTwiceInGroups ==
    \A p, q \in AllPairs : p # q => PairAt(p)[1] # PairAt(q)[1]

\* a group of two entries whose second object was passed again
C14_Witness ==
    \E t \in DOMAIN binds_values :
        /\ Len(binds_values[t]) = 2
        /\ Cardinality({i \in BindCalls :
               history[i].value = binds_values[t][2][1]}) >= 2

\* ---- the flat registry of the design notes --------------------------------
\* one ordered list of (value, key) pairs scanned by identity, no buckets
FlatFind(list, value) ==
    IF \E e \in 1..Len(list) : list[e][1] = value
    THEN list[CHOOSE e \in 1..Len(list) :
                  /\ list[e][1] = value
                  /\ \A d \in 1..Len(list) : list[d][1] = value => e <= d][2]
    ELSE NoKey

FlatInit ==
    [list |-> <<>>, count |-> 0, binds |-> <<>>, rets |-> <<>>, outs |-> <<>>]

\* one call on the flat registry; rets gets the key returned by bindparam
\* and outs the list returned by get_bindparams (empty for the other calls)
FlatStep(st, c) ==
    LET found == FlatFind(st.list, c.value)
        key   == <<"b">> \o ToStr(st.count)
    IN  IF c.op = "get_bindparams"
        THEN [st EXCEPT !.rets = Append(@, NoKey), !.outs = Append(@, st.binds)]
        ELSE IF c.op # "bindparam"
        THEN [st EXCEPT !.rets = Append(@, NoKey), !.outs = Append(@, <<>>)]
        ELSE IF found # NoKey
        THEN [st EXCEPT !.rets = Append(@, found), !.outs = Append(@, <<>>)]
        ELSE [list  |-> Append(st.list, <<c.value, key>>),
              count |-> st.count + 1,
              binds |-> Append(st.binds,
                           [key |-> key, value |-> c.value, config |-> c.config]),
              rets  |-> Append(st.rets, key),
              outs  |-> Append(st.outs, <<>>)]

RECURSIVE FlatRun(_)
\* the flat registry after the first n recorded calls
FlatRun(n) == IF n = 0 THEN FlatInit ELSE FlatStep(FlatRun(n - 1), history[n])

\* C15: the type-bucketed registry is observationally equivalent to the flat
\* registry: on the same sequence of calls both return the same key for every
\* bindparam call and export the same ordered bind list.
C15_BucketsEquivalentToFlatList ==
    LET flat == FlatRun(Len(history))
    IN  /\ \A i \in BindCalls : history[i].ret_key = flat.rets[i]
        /\ \A i \in 1..Len(history) :
               history[i].op = "get_bindparams"
                   => history[i].ret_list = flat.outs[i]
        /\ DictValues(binds) = flat.binds

\* int, str, int objects registered in this order, a hit, then an export
C15_Witness ==
    /\ Len(history) = 5
    /\ Last.op = "get_bindparams"
    /\ Len(Last.ret_list) = 3
    /\ Cardinality(BindCalls) = 4
    /\ DOMAIN binds_values = {"int", "str"}
    /\ Len(binds_values["int"]) = 2
    /\ LET list == FlatRun(5).list
       IN  /\ Len(list) = 3
           /\ TypeOf(list[1][1]) = "int"
           /\ TypeOf(list[2][1]) = "str"
           /\ TypeOf(list[3][1]) = "int"

\* C16: QueryContext is a monotonic accumulator: in every step the alias set,
\* each bind group and binds only gain entries (none is removed or changed)
\* and the bind counter never decreases.
C16_MonotonicAccumulator ==
    [][/\ aliases \subseteq aliases'
       /\ (DOMAIN binds_values) \subseteq (DOMAIN binds_values')
       /\ \A t \in DOMAIN binds_values :
              /\ Len(binds_values[t]) <= Len(binds_values'[t])
              /\ \A e \in 1..Len(binds_values[t]) :
                     binds_values'[t][e] = binds_values[t][e]
       /\ Len(binds) <= Len(binds')
       /\ \A k \in 1..Len(binds) : binds'[k] = binds[k]
       /\ binds_count' >= binds_count
    ]_vars

\* aliases, a bind group and binds have all grown, and an export was made
C16_Witness ==
    /\ Cardinality(aliases) >= 2
    /\ Len(binds) >= 2
    /\ \E t \in DOMAIN binds_values : Len(binds_values[t]) >= 2
    /\ \E i \in 1..Len(history) : history[i].op = "get_bindparams"

AllIdle == \A t \in Threads : threads[t].pc = "idle"

\* what sequential use guarantees of the registry and of the keys returned
RegistrySound ==
    /\ \A i, j \in BindCalls :
           (history[i].value = history[j].value)
               <=> (history[i].ret_key = history[j].ret_key)
    /\ \A p, q \in AllPairs : p # q => PairAt(p)[1] # PairAt(q)[1]
    /\ \A p, q \in AllPairs : p # q => PairAt(p)[2] # PairAt(q)[2]
    /\ BindKeys = {PairAt(p)[2] : p \in AllPairs}
    /\ Len(binds) = Cardinality(AllPairs)
    /\ binds_count = Len(binds)

\* C18: the invariants are not safe under concurrent access: they hold as
\* long as the calls of the two threads never overlap, and with the reads and
\* writes of two bindparam calls interleaved a state is reachable in which
\* two distinct objects have the same key and binds holds fewer entries than
\* the bind groups.
C18_SoundWithoutOverlap ==
    (AllIdle /\ ~overlapped) => RegistrySound

\* the threads have returned: two distinct objects are registered under one
\* key, binds holds fewer entries than the bind groups, and one object is
\* registered twice
C18_Witness ==
    /\ AllIdle
    /\ overlapped
    /\ \E p, q \in AllPairs : p # q /\ PairAt(p)[1] = PairAt(q)[1]
    /\ \E p, q \in AllPairs :
           /\ PairAt(p)[1] # PairAt(q)[1]
           /\ PairAt(p)[2] = PairAt(q)[2]
    /\ Len(binds) < Cardinality(AllPairs)
    /\ \E i, j \in BindCalls :
           /\ history[i].value # history[j].value
           /\ history[i].ret_key = history[j].ret_key

IsDigit(ch) == \E d \in 1..10 : Digits[d] = ch

\* p is c followed by "_" and a decimal number
SuffixForm(p, c) ==
    /\ Len(p) > Len(c) + 1
    /\ SubSeq(p, 1, Len(c) + 1) = c \o <<"_">>
    /\ \A k \in (Len(c) + 2)..Len(p) : IsDigit(p[k])

\* no candidate passed to alias is another candidate plus "_" and a number
CleanNames(h) ==
    \A i, j \in 1..Len(h) :
        (h[i].op = "alias" /\ h[j].op = "alias")
            => ~SuffixForm(h[i].name, h[j].name)

\* C19: if no candidate name passed to alias has the form c + "_" + <decimal
\* number> for a candidate c also passed, every alias call adds exactly one
\* new string to the alias set and all returned strings are pairwise distinct.
C19_CleanNamesAlwaysUnique ==
    [][(Made("alias") /\ CleanNames(history')) =>
        LET A == SelectSeq(history', IsAliasCall)
        IN  /\ Cardinality(aliases') = Cardinality(aliases) + 1
            /\ history'[Len(history')].ret_key \notin aliases
            /\ \A i, j \in 1..Len(A) : i # j => A[i].ret_key # A[j].ret_key
    ]_vars

\* four calls with the candidates "u" and "t_1" only, two of them colliding
C19_Witness ==
    /\ Len(AliasSeq) = 4
    /\ CleanNames(history)
    /\ {AliasSeq[i].name : i \in 1..4} = {<<"u">>, <<"t", "_", "1">>}
    /\ Cardinality({i \in 1..4 : AliasSeq[i].hit}) = 2
    /\ Cardinality(aliases) = 4

\* C20: in sequential use the bind counter equals the number of entries of
\* binds and the number of (value, key) pairs of all bind groups, so the next
\* key to be minted is not a key of binds.
C20_CounterIsSize ==
    /\ binds_count = Len(binds)
    /\ binds_count = Cardinality(AllPairs)
    /\ <<"b">> \o ToStr(binds_count) \notin BindKeys

\* three registrations and at least one hit
C20_Witness ==
    /\ binds_count = 3
    /\ Cardinality(BindCalls) >= 4
    /\ <<"b", "2">> \in BindKeys

====
